---- MODULE Spec2Model ----
(***************************************************************************)
(* ChurnGuard AI (src/app.py): the asset loading at import time, the       *)
(* encoder lookup safe_encode, the feature vector of create_feature_array, *)
(* the single-customer analysis with its what-if simulation, and the batch *)
(* run over an uploaded table.                                             *)
(*                                                                         *)
(* Representation.  A Python value is a record [t, v, s]: a number         *)
(* (t = "num", v its value) or a string (t = "str", s its text).  Money    *)
(* and tenure are fixed-point, in hundredths (95.0 is 9500).  A            *)
(* probability is an integer count of 1e-5 (0.40 is 40000), fine enough    *)
(* for round(prob, 4) and the .1% format to do something.  An exception    *)
(* is a result record with ok = FALSE and the exception's name.            *)
(***************************************************************************)
EXTENDS Integers, Sequences, FiniteSets, TLC

VARIABLES
    pc,          \* "start" before the asset loading of lines 12-32; then "serving"
                 \* while no call runs and "returned" when one has just returned
    model,       \* the global `model`: a classifier object or NoneModel
    encoders,    \* the global `encoders`: an insertion-ordered dict, a sequence of <<key, encoder>>
    load_error,  \* whether the except branch of lines 29-32 ran
    files,       \* the two files the batch run writes in the working directory
    obs          \* the call that has just returned: its arguments, what it did and
                 \* what it returned, until the caller has taken the result

vars == <<pc, model, encoders, load_error, files, obs>>

-----------------------------------------------------------------------------
(* Python values *)

Num(n) == [t |-> "num", v |-> n, s |-> ""]
Str(x) == [t |-> "str", v |-> 0, s |-> x]

\* F applied to the value of v, with v evaluated once.
Bind(v, F(_)) == CHOOSE r \in {F(x) : x \in {v}} : TRUE

Ok(x) == [ok |-> TRUE, val |-> x, exc |-> "none"]
Raise(e, dflt) == [ok |-> FALSE, val |-> dflt, exc |-> e]

\* The numeric strings of the model and the number each one reads as.
NumericText == ("95.0" :> 9500) @@ ("3" :> 300) @@ ("12" :> 1200)

\* float(x): a number converts, a numeric string parses, anything else raises
\* ValueError (lines 59, 72, 73, 105, 106, 117, 180, 183, 184).
Float(x) ==
    IF x.t = "num" THEN Ok(x.v)
    ELSE IF x.s \in DOMAIN NumericText THEN Ok(NumericText[x.s])
    ELSE Raise("ValueError", 0)

\* str(x) of the batch loop (lines 176-182): a string is itself; the numbers a
\* cell holds print as their decimal text.
PyStr(x) ==
    IF x.t = "str" THEN x.s
    ELSE IF x.v = 0 THEN "0"
    ELSE IF x.v = 100 THEN "1"
    ELSE "<number>"

-----------------------------------------------------------------------------
(* str.lower() on the field names that occur as arguments or as encoder keys *)

Lower(name) ==
    CASE name = "Gender" -> "gender"
      [] name = "GENDER" -> "gender"
      [] name = "Partner" -> "partner"
      [] name = "Dependents" -> "dependents"
      [] name = "PhoneService" -> "phoneservice"
      [] name = "MultipleLines" -> "multiplelines"
      [] name = "InternetService" -> "internetservice"
      [] name = "OnlineSecurity" -> "onlinesecurity"
      [] name = "OnlineBackup" -> "onlinebackup"
      [] name = "DeviceProtection" -> "deviceprotection"
      [] name = "TechSupport" -> "techsupport"
      [] name = "StreamingTV" -> "streamingtv"
      [] name = "StreamingMovies" -> "streamingmovies"
      [] name = "Contract" -> "contract"
      [] name = "CONTRACT" -> "contract"
      [] name = "PaperlessBilling" -> "paperlessbilling"
      [] name = "PaymentMethod" -> "paymentmethod"
      [] name = "Churn" -> "churn"
      [] OTHER -> name

-----------------------------------------------------------------------------
(* The encoder artifact encoders.pkl: what pickle.load may return (line 25) *)

YesNo == ("No" :> 0) @@ ("Yes" :> 1)
NetAddOn == ("No" :> 0) @@ ("No internet service" :> 1) @@ ("Yes" :> 2)

\* The label encoders of the training notebook: classes in sorted order.
TrainedEncoders ==
    << <<"gender", ("Female" :> 0) @@ ("Male" :> 1)>>,
       <<"Partner", YesNo>>,
       <<"Dependents", YesNo>>,
       <<"PhoneService", YesNo>>,
       <<"MultipleLines", ("No" :> 0) @@ ("No phone service" :> 1) @@ ("Yes" :> 2)>>,
       <<"InternetService", ("DSL" :> 0) @@ ("Fiber optic" :> 1) @@ ("No" :> 2)>>,
       <<"OnlineSecurity", NetAddOn>>,
       <<"OnlineBackup", NetAddOn>>,
       <<"DeviceProtection", NetAddOn>>,
       <<"TechSupport", NetAddOn>>,
       <<"StreamingTV", NetAddOn>>,
       <<"StreamingMovies", NetAddOn>>,
       <<"Contract", ("Month-to-month" :> 0) @@ ("One year" :> 1) @@ ("Two year" :> 2)>>,
       <<"PaperlessBilling", YesNo>>,
       <<"PaymentMethod", ("Bank transfer (automatic)" :> 0) @@ ("Credit card (automatic)" :> 1)
                          @@ ("Electronic check" :> 2) @@ ("Mailed check" :> 3)>> >>

\* The same fields with codes no two fields share (10 * position + class), so
\* that a value in the wrong column of the feature vector shows.
TaggedEncoders ==
    [i \in 1..Len(TrainedEncoders) |->
        <<TrainedEncoders[i][1],
          [c \in DOMAIN TrainedEncoders[i][2] |-> 10 * i + TrainedEncoders[i][2][c]]>>]

\* An artifact whose keys differ from the names the code asks for: keys in
\* another case, two keys equal up to case, encoders that lack a class.
LegacyEncoders ==
    << <<"Gender", ("Female" :> 5) @@ ("Male" :> 6)>>,
       <<"partner", ("No" :> 7) @@ ("Yes" :> 8)>>,
       <<"CONTRACT", ("Month-to-month" :> 20) @@ ("Two year" :> 22)>>,
       <<"contract", ("Month-to-month" :> 30) @@ ("One year" :> 31)>>,
       <<"TechSupport", ("No" :> 40)>>,
       <<"techsupport", ("No" :> 50) @@ ("Yes" :> 51)>>,
       <<"internetservice", ("DSL" :> 60) @@ ("Fiber optic" :> 61) @@ ("No" :> 62)>>,
       <<"INTERNETSERVICE", ("DSL" :> 70)>> >>

EmptyEncoders == << >>

EncoderPickles == {TrainedEncoders, TaggedEncoders, LegacyEncoders, EmptyEncoders}

-----------------------------------------------------------------------------
(* The model artifact customer_churn_model.pkl (lines 13-22) *)

\* The classifier is an object with predict and, for most estimators,
\* predict_proba.  The model draws it from decision stumps: one test of one
\* column of the feature vector, and a leaf on either side that says what
\* predict and predict_proba do there (return, or raise).
Leaf(l, p) == [label |-> l, proba |-> p]
Safe == Leaf(Ok(0), Ok(30000))
Edge == Leaf(Ok(0), Ok(40000))      \* a probability of exactly 0.40
Over == Leaf(Ok(1), Ok(40001))
Risky == Leaf(Ok(1), Ok(55004))
Odd == Leaf(Ok(0), Ok(55004))       \* label and probability need not agree
Broken == Leaf(Raise("ClassifierError", 0), Raise("ClassifierError", 0))
HalfBroken == Leaf(Ok(1), Raise("ClassifierError", 0))
Leaves == {Safe, Edge, Over, Risky, Broken}

Stump(name, col, thr, lo, hi, proba) ==
    [id |-> name, has_proba |-> proba, split |-> col, thr |-> thr, lo |-> lo, hi |-> hi]

NoneModel == Stump("None", 1, 0, Broken, Broken, FALSE)

\* Column 18 is monthly-charges, column 15 the contract code.
MonthlyStumps == {Stump("forest", 18, 8500, lo, hi, TRUE) : lo \in Leaves, hi \in Leaves}
OtherStumps ==
    { Stump("contract", 15, 1, Risky, Safe, TRUE),
      Stump("odd", 18, 8500, Over, Odd, TRUE),
      Stump("half", 18, 8500, Safe, HalfBroken, TRUE),
      Stump("margin", 18, 8500, Safe, Risky, FALSE) }   \* no predict_proba
Classifiers == MonthlyStumps \cup OtherStumps

Forest == Stump("forest", 18, 8500, Safe, Risky, TRUE)
Margin == Stump("margin", 18, 8500, Safe, Risky, FALSE)

\* model.predict(features)[0] and model.predict_proba(features)[0][1].  None
\* has neither method; an estimator without predict_proba raises the same
\* AttributeError when it is asked for one.
Predict(m, features) ==
    IF m.id = "None" THEN Raise("AttributeError", 0)
    ELSE (IF features[m.split] < m.thr THEN m.lo ELSE m.hi).label

PredictProba(m, features) ==
    IF ~m.has_proba THEN Raise("AttributeError", 0)
    ELSE (IF features[m.split] < m.thr THEN m.lo ELSE m.hi).proba

Bare(m) == [isdict |-> FALSE, items |-> << >>, obj |-> m]
Dict(kv) == [isdict |-> TRUE, items |-> kv, obj |-> NoneModel]

\* What pickle.load may return (line 14): a classifier, or a dict holding one.
ModelPickles ==
    {Bare(m) : m \in Classifiers}
        \cup { Dict(<< <<"classifier", Margin>>, <<"model", Forest>> >>),
               Dict(<< <<"scaler", Margin>>, <<"classifier", Forest>> >>),
               Dict(<< <<"clf", Margin>>, <<"features", Forest>> >>),
               Dict(<< >>) }

HasKey(d, k) == \E i \in 1..Len(d) : d[i][1] = k
Get(d, k) == d[CHOOSE i \in 1..Len(d) : d[i][1] = k][2]

\* Lines 17-22: the classifier inside the unpickled object; list(...)[0] of an
\* empty dict raises IndexError.
ExtractModel(loaded_object) ==
    IF loaded_object.isdict
    THEN IF HasKey(loaded_object.items, "model") THEN Ok(Get(loaded_object.items, "model"))
         ELSE IF HasKey(loaded_object.items, "classifier")
              THEN Ok(Get(loaded_object.items, "classifier"))
         ELSE IF Len(loaded_object.items) > 0 THEN Ok(loaded_object.items[1][2])
         ELSE Raise("IndexError", NoneModel)
    ELSE Ok(loaded_object.obj)

\* Lines 12-32 as a whole: model_file and encoder_file are what the two open()
\* calls find, present = FALSE when the file is missing or does not unpickle.
\* Any exception leaves model = None and encoders = {}, whichever load failed.
LoadAssets(model_file, encoder_file) ==
    LET m == ExtractModel(model_file.content)
    IN  IF ~model_file.present
        THEN [model |-> NoneModel, encoders |-> EmptyEncoders, load_error |-> "model file"]
        ELSE IF ~m.ok
        THEN [model |-> NoneModel, encoders |-> EmptyEncoders, load_error |-> m.exc]
        ELSE IF ~encoder_file.present
        THEN [model |-> NoneModel, encoders |-> EmptyEncoders, load_error |-> "encoder file"]
        ELSE [model |-> m.val, encoders |-> encoder_file.content, load_error |-> "none"]

PresentFiles(contents) == {[present |-> TRUE, content |-> p] : p \in contents}
MissingModelFile == [present |-> FALSE, content |-> Bare(NoneModel)]
MissingEncoderFile == [present |-> FALSE, content |-> EmptyEncoders]

-----------------------------------------------------------------------------
(* 2. Core utilities *)

\* encoders[key].transform([value])[0]: the class's code, ValueError on a
\* value the encoder was not fit on.
Transform(enc, value) ==
    IF value \in DOMAIN enc THEN Ok(enc[value]) ELSE Raise("ValueError", 0)

\* The first key, in the dict's iteration order, equal to col_name up to case
\* (the loop of lines 41-43); 0 when there is none.
FirstKeyIgnoringCase(d, col_name) ==
    IF \E i \in 1..Len(d) : Lower(d[i][1]) = Lower(col_name)
    THEN CHOOSE i \in 1..Len(d) :
            /\ Lower(d[i][1]) = Lower(col_name)
            /\ \A j \in 1..(i - 1) : Lower(d[j][1]) # Lower(col_name)
    ELSE 0

\* SafeEncodeBody without the loop of lines 41-43: exact keys only.
SafeEncodeBodyExactOnly(d, col_name, value) ==
    IF HasKey(d, col_name) THEN Transform(Get(d, col_name), value) ELSE Ok(0)

\* The body of safe_encode's try block (lines 39-44) on encoder table d: the
\* value returned, or the exception raised inside it.
SafeEncodeBody(d, col_name, value) ==
    LET i == FirstKeyIgnoringCase(d, col_name)
    IN  IF HasKey(d, col_name) THEN Transform(Get(d, col_name), value)   \* lines 39-40
        ELSE IF i > 0 THEN Transform(d[i][2], value)                     \* lines 41-43
        ELSE Ok(0)                                                       \* line 44

\* safe_encode (lines 36-46): the bare except of lines 45-46 turns whatever
\* the body raises into 0.
safe_encode(col_name, value) ==
    LET r == SafeEncodeBody(encoders, col_name, value)
    IN  IF r.ok THEN Ok(r.val) ELSE Ok(0)

\* The defaults of create_feature_array's last three parameters (line 48).
DefaultContract == "Month-to-month"
DefaultTechSupport == "No"
DefaultOnlineSecurity == "No"

\* create_feature_array with the tech-support and online-security columns
\* exchanged.
create_feature_array_swapped(gender, senior, partner, dependents, tenure, phone, internet, monthly, total, contract, tech_support, online_security) ==
    IF Float(tenure).ok /\ Float(monthly).ok /\ Float(total).ok
    THEN Ok(<< safe_encode("gender", gender).val,
               IF senior = "Yes" THEN 1 ELSE 0,
               safe_encode("Partner", partner).val,
               safe_encode("Dependents", dependents).val,
               Float(tenure).val,
               safe_encode("PhoneService", phone).val,
               safe_encode("MultipleLines", "No").val,
               safe_encode("InternetService", internet).val,
               safe_encode("TechSupport", tech_support).val,
               safe_encode("OnlineBackup", "No").val,
               safe_encode("DeviceProtection", "No").val,
               safe_encode("OnlineSecurity", online_security).val,
               safe_encode("StreamingTV", "No").val,
               safe_encode("StreamingMovies", "No").val,
               safe_encode("Contract", contract).val,
               safe_encode("PaperlessBilling", "Yes").val,
               safe_encode("PaymentMethod", "Electronic check").val,
               Float(monthly).val,
               Float(total).val >>)
    ELSE Raise("ValueError", << >>)

\* create_feature_array (lines 48-74): the one row of the array, or the
\* exception of the first call in it that raises (a float() that fails, with
\* ValueError).  Codes are integers, the three numeric columns are fixed-point
\* hundredths.
create_feature_array(gender, senior, partner, dependents, tenure, phone, internet, monthly, total, contract, tech_support, online_security) ==
    LET senior_val == IF senior = "Yes" THEN 1 ELSE 0
        Row(cells) ==
            LET raising == {i \in 1..Len(cells) : ~cells[i].ok}
            IN  IF raising = {}
                THEN Ok([i \in 1..Len(cells) |-> cells[i].val])
                ELSE Raise(cells[CHOOSE i \in raising : \A j \in raising : i <= j].exc, << >>)
    IN  Bind(<< safe_encode("gender", gender),
                Ok(senior_val),
                safe_encode("Partner", partner),
                safe_encode("Dependents", dependents),
                Float(tenure),
                safe_encode("PhoneService", phone),
                safe_encode("MultipleLines", "No"),
                safe_encode("InternetService", internet),
                safe_encode("OnlineSecurity", online_security),
                safe_encode("OnlineBackup", "No"),
                safe_encode("DeviceProtection", "No"),
                safe_encode("TechSupport", tech_support),
                safe_encode("StreamingTV", "No"),
                safe_encode("StreamingMovies", "No"),
                safe_encode("Contract", contract),
                safe_encode("PaperlessBilling", "Yes"),
                safe_encode("PaymentMethod", "Electronic check"),
                Float(monthly),
                Float(total) >>, Row)

\* generate_email (lines 76-91): the draft, by its variable parts.
generate_email(name, risk_drivers, offer_details) ==
    [kind |-> "offer", concern |-> risk_drivers, offer |-> offer_details]

NoEmail == [kind |-> "safe", concern |-> << >>, offer |-> ""]   \* line 113

-----------------------------------------------------------------------------
(* Number formatting *)

\* p rounded to the nearest multiple of unit, a tie going to the even multiple.
RoundHalfEven(p, unit) ==
    LET q == p \div unit
        r == p % unit
    IN  IF 2 * r < unit THEN q * unit
        ELSE IF 2 * r > unit THEN (q + 1) * unit
        ELSE IF q % 2 = 0 THEN q * unit ELSE (q + 1) * unit

\* f"{prob:.1%}" (lines 127, 141, 150): the probability to a tenth of a percent.
FormatPct1(p) == RoundHalfEven(p, 100) \div 100

\* Round4 storing the probability as the classifier gave it.
Unrounded(p) == p

\* round(prob, 4) (line 189).
Round4(p) == RoundHalfEven(p, 10)

-----------------------------------------------------------------------------
(* 3. Main prediction logic (single user) *)

\* The thresholds of lines 105, 106 and 115, in the model's units.
HighMonthly == 8000
LowTenure == 1200
RiskThreshold == 40000

\* RiskDrivers with the two thresholds inclusive.
RiskDriversInclusive(monthly, tenure, internet) ==
    (IF Float(monthly).val >= HighMonthly THEN <<"High Monthly Charges">> ELSE << >>)
    \o (IF Float(tenure).val <= LowTenure THEN <<"New Customer (Low Tenure)">> ELSE << >>)
    \o (IF internet = "Fiber optic" THEN <<"Fiber Optic Issues (Common)">> ELSE << >>)

\* Lines 104-107: the churn drivers, in the order the rules are tried.  The
\* float() calls cannot fail here: create_feature_array made them first.
RiskDrivers(monthly, tenure, internet) ==
    (IF Float(monthly).val > HighMonthly THEN <<"High Monthly Charges">> ELSE << >>)
    \o (IF Float(tenure).val < LowTenure THEN <<"New Customer (Low Tenure)">> ELSE << >>)
    \o (IF internet = "Fiber optic" THEN <<"Fiber Optic Issues (Common)">> ELSE << >>)

\* Line 109: " • ".join(reasons), kept as the sequence of the parts it joins.
ExplanationText(reasons) ==
    IF reasons # << >> THEN reasons ELSE <<"Standard Usage Pattern">>

\* Discounted with the discount taken for the price: float(monthly) * 0.15.
DiscountedAsRebate(monthly) == Num((Float(monthly).val * 15) \div 100)

\* Line 117: float(monthly) * 0.85.  Exact in hundredths for the amounts the
\* model draws (multiples of 0.20).
Discounted(monthly) == Num((Float(monthly).val * 85) \div 100)

NoMsg == [kind |-> "none", from |-> 0, to |-> 0]          \* line 112
NoCard == [kind |-> "none", score |-> 0, drivers |-> << >>]

\* Recommended with drop >= 0 for drop > 0.
RecommendedOnTie(prob, new_prob) == prob - new_prob >= 0

\* Lines 121-122: whether the offer lowers the probability.
Recommended(prob, new_prob) == prob - new_prob > 0

\* Lines 115-133: the what-if step, entered with the handler's local variables
\* (frame) and the base probability.  The result holds the locals as the step
\* leaves them.
WhatIf(frame, prob, explanation_text) ==
    LET new_monthly == Discounted(frame.monthly)
        base == [frame |-> frame, simulated |-> FALSE, new_features |-> << >>,
                 new_prob |-> 0, exc |-> "none", msg |-> NoMsg, email |-> NoEmail]
        Compare(new_features, answer) ==                                \* lines 121-133
            LET ran == [base EXCEPT !.simulated = TRUE, !.new_features = new_features.val]
            IN  IF ~answer.ok THEN [ran EXCEPT !.exc = answer.exc]
                ELSE IF Recommended(prob, answer.val)
                THEN [ran EXCEPT
                         !.new_prob = answer.val,
                         !.msg = [kind |-> "offer", from |-> FormatPct1(prob),
                                  to |-> FormatPct1(answer.val)],
                         !.email = generate_email("Customer", explanation_text,
                             "A 15% Discount on your monthly bill + Free Tech Support upgrade")]
                ELSE [ran EXCEPT
                         !.new_prob = answer.val,
                         !.msg = [kind |-> "structural", from |-> 0, to |-> 0],
                         !.email = generate_email("Customer", <<"recent service issues">>,
                                                  "A Priority Support Plan")]
        Simulate(new_features) ==                                       \* lines 118-119
            IF ~new_features.ok
            THEN [base EXCEPT !.simulated = TRUE, !.exc = new_features.exc]
            ELSE Bind(PredictProba(model, new_features.val),
                      LAMBDA answer : Compare(new_features, answer))
    IN  IF prob > RiskThreshold
        THEN Bind(create_feature_array(frame.gender, frame.senior, frame.partner,
                      frame.dependents, frame.tenure, frame.phone, frame.internet,
                      new_monthly, frame.total, "One year", "Yes", DefaultOnlineSecurity),
                  Simulate)
        ELSE base

\* Lines 136-153: the result card.
ResultCard(pred, prob, explanation_text) ==
    IF pred = 1
    THEN [kind |-> "churn", score |-> FormatPct1(prob), drivers |-> explanation_text]
    ELSE [kind |-> "safe", score |-> FormatPct1(prob), drivers |-> << >>]

\* What a call of analyze_single_customer leaves to observe.  returned is
\* "error" for the early return of line 96, "result" for line 155 and "raised"
\* when an exception leaves the function (exc names it).  builds counts the
\* calls of create_feature_array, proba_calls are the vectors predict_proba was
\* called with, in order, and scored says that lines 100-101 gave pred and prob.
AnalysisStart(c) ==
    [op |-> "analyze", args |-> c, returned |-> "error", exc |-> "none",
     builds |-> 0, features |-> << >>, predict_calls |-> << >>, proba_calls |-> << >>,
     scored |-> FALSE, pred |-> 0, prob |-> 0, reasons |-> << >>, explanation |-> << >>,
     simulated |-> FALSE,
     new_features |-> << >>, new_prob |-> 0, frame |-> c,
     card |-> NoCard, msg |-> NoMsg, email |-> NoEmail]

\* analyze_single_customer (lines 95-155).
analyze_single_customer(c) ==
    LET o == AnalysisStart(c)
        Outcome(f, pred, prob, reasons, w) ==                           \* lines 103-155
            LET explanation_text == ExplanationText(reasons)
                o3 == [o EXCEPT
                          !.features = f.val, !.predict_calls = <<f.val>>,
                          !.scored = TRUE, !.pred = pred.val, !.prob = prob.val,
                          !.reasons = reasons, !.explanation = explanation_text,
                          !.simulated = w.simulated, !.frame = w.frame,
                          !.builds = IF w.simulated THEN 2 ELSE 1,
                          !.new_features = w.new_features,
                          !.proba_calls =
                              (IF model.has_proba THEN <<f.val>> ELSE << >>)
                              \o (IF w.simulated /\ w.new_features # << >>
                                  THEN <<w.new_features>> ELSE << >>)]
            IN  IF w.exc # "none" THEN [o3 EXCEPT !.returned = "raised", !.exc = w.exc]
                ELSE [o3 EXCEPT !.returned = "result", !.new_prob = w.new_prob,
                                !.msg = w.msg, !.email = w.email,
                                !.card = ResultCard(pred.val, prob.val, explanation_text)]
        Explain(f, pred, prob) ==                                       \* lines 103-133
            Bind(RiskDrivers(c.monthly, c.tenure, c.internet),
                 LAMBDA reasons :
                     Bind(WhatIf(c, prob.val, ExplanationText(reasons)),
                          LAMBDA w : Outcome(f, pred, prob, reasons, w)))
        Classify(f) ==                                                  \* lines 100-101
            LET o1 == [o EXCEPT !.builds = 1, !.features = f.val, !.predict_calls = <<f.val>>]
                Proba(pred, prob) ==
                    IF ~prob.ok
                    THEN [o1 EXCEPT !.returned = "raised", !.exc = prob.exc,
                                    !.pred = pred.val, !.proba_calls = <<f.val>>]
                    ELSE Explain(f, pred, prob)
                Label(pred) ==
                    IF ~pred.ok THEN [o1 EXCEPT !.returned = "raised", !.exc = pred.exc]
                    ELSE Bind(IF model.has_proba THEN PredictProba(model, f.val) ELSE Ok(0),
                              LAMBDA prob : Proba(pred, prob))
            IN  IF ~f.ok THEN [o EXCEPT !.returned = "raised", !.exc = f.exc, !.builds = 1]
                ELSE Bind(Predict(model, f.val), Label)
    IN  IF model = NoneModel THEN o                                      \* line 96
        ELSE Bind(create_feature_array(c.gender, c.senior, c.partner, c.dependents,
                      c.tenure, c.phone, c.internet, c.monthly, c.total,
                      DefaultContract, DefaultTechSupport, DefaultOnlineSecurity),
                  Classify)                                              \* line 99

-----------------------------------------------------------------------------
(* 4. Batch processing *)

Required ==
    <<"gender", "SeniorCitizen", "Partner", "Dependents", "tenure", "PhoneService",
      "InternetService", "MonthlyCharges", "TotalCharges">>             \* line 167

Range(q) == {q[i] : i \in 1..Len(q)}

\* A data frame: the column names in order and, per row, a value per column.
Frame(cols, rows) == [cols |-> cols, rows |-> rows]
EmptyFrame == Frame(<< >>, << >>)

\* row.get(col, default) (lines 176-184).
RowGet(row, col, default) == IF col \in DOMAIN row THEN row[col] ELSE default

\* Lines 175-185: the feature vector of one row.  The float() calls of lines
\* 180, 183 and 184 come before the call, and raise as those inside it do.
RowFeatures(row) ==
    LET tenure == Float(RowGet(row, "tenure", Num(0)))
        monthly == Float(RowGet(row, "MonthlyCharges", Num(0)))
        total == Float(RowGet(row, "TotalCharges", Num(0)))
        senior == RowGet(row, "SeniorCitizen", Num(0))
    IN  IF tenure.ok /\ monthly.ok /\ total.ok
        THEN create_feature_array(
                 PyStr(RowGet(row, "gender", Str("Male"))),
                 IF senior.t = "num" /\ senior.v = 100 THEN "Yes" ELSE "No",
                 PyStr(RowGet(row, "Partner", Str("No"))),
                 PyStr(RowGet(row, "Dependents", Str("No"))),
                 Num(tenure.val),
                 PyStr(RowGet(row, "PhoneService", Str("No"))),
                 PyStr(RowGet(row, "InternetService", Str("No"))),
                 Num(monthly.val),
                 Num(total.val),
                 DefaultContract, DefaultTechSupport, DefaultOnlineSecurity)
        ELSE Raise("ValueError", << >>)

\* Lines 175-189 for one row: the label and the rounded probability, or the
\* exception that ends the loop.
RowResult(row) ==
    LET bad(e) == [ok |-> FALSE, exc |-> e, label |-> "", prob |-> 0]
        Classify(f) ==
            LET pred == Predict(model, f.val)
                prob == PredictProba(model, f.val)
            IN  IF ~f.ok THEN bad(f.exc)
                ELSE IF ~pred.ok THEN bad(pred.exc)
                ELSE IF ~prob.ok THEN bad(prob.exc)
                ELSE [ok |-> TRUE, exc |-> "none",
                      label |-> IF pred.val = 1 THEN "Churn" ELSE "No Churn",
                      prob |-> Round4(prob.val)]
    IN  Bind(RowFeatures(row), Classify)

\* The first row of the loop that raises, given every row's result; 0 when
\* none does.
FailedRow(rr) ==
    IF \E i \in 1..Len(rr) : ~rr[i].ok
    THEN CHOOSE i \in 1..Len(rr) : ~rr[i].ok /\ \A j \in 1..(i - 1) : rr[j].ok
    ELSE 0

\* df[name] = values (lines 191-192): a column of that name is replaced where
\* it stands, a new name is added as the last column.
SetColumn(df, name, values) ==
    Frame(IF name \in Range(df.cols) THEN df.cols ELSE Append(df.cols, name),
          [i \in 1..Len(df.rows) |->
              [c \in DOMAIN df.rows[i] \cup {name} |->
                  IF c = name THEN values[i] ELSE df.rows[i][c]]])

\* Lines 191-192: the frame with its two result columns.
Annotate(df, rr) ==
    LET results == [i \in 1..Len(rr) |-> Str(rr[i].label)]
        probs == [i \in 1..Len(rr) |-> Num(rr[i].prob)]
    IN  SetColumn(SetColumn(df, "Prediction", results), "Churn_Probability", probs)

\* What a call of process_batch_file does when nothing is given to it.
BatchQuiet ==
    [ret |-> "None", nrows |-> 0, failed_row |-> 0, exc |-> "none",
     writes_results |-> FALSE, results |-> EmptyFrame, writes_error |-> FALSE, error |-> ""]

\* BatchFailure saving the rows done before the failing one.
BatchFailureKeepingRows(df, rr, k, e) ==
    [BatchQuiet EXCEPT !.ret = "error_log.txt", !.nrows = Len(df.rows), !.failed_row = k,
                       !.exc = e, !.writes_error = TRUE, !.error = e,
                       !.writes_results = TRUE,
                       !.results = Frame(df.cols, SubSeq(df.rows, 1, k - 1))]

\* The except branch (lines 199-203), entered with exception e from row k of
\* the frame (k = 0: from read_csv): the error log is written and its path
\* returned.
BatchFailure(df, rr, k, e) ==
    [BatchQuiet EXCEPT !.ret = "error_log.txt", !.nrows = Len(df.rows), !.failed_row = k,
                       !.exc = e, !.writes_error = TRUE, !.error = e]

\* process_batch_file (lines 159-203): what it returns and what it writes.
\* file_obj.kind is "none" for None, "broken" for a file read_csv rejects and
\* "csv" for one it reads into file_obj.df.
process_batch_file(file_obj) ==
    LET Loop(rr) ==                                                     \* lines 173-197
            LET k == FailedRow(rr)
            IN  IF k > 0 THEN BatchFailure(file_obj.df, rr, k, rr[k].exc)
                ELSE [BatchQuiet EXCEPT !.ret = "processed_churn_results.csv",
                                        !.nrows = Len(rr), !.writes_results = TRUE,
                                        !.results = Annotate(file_obj.df, rr)]
    IN  IF file_obj.kind = "none" THEN BatchQuiet                          \* line 160
        ELSE IF file_obj.kind = "broken"
        THEN BatchFailure(EmptyFrame, << >>, 0, "ParserError")             \* line 164
        ELSE Bind([i \in 1..Len(file_obj.df.rows) |-> RowResult(file_obj.df.rows[i])], Loop)

-----------------------------------------------------------------------------
(* The inputs the model draws *)

\* Records of the dashboard form (lines 235-250) and beyond: amounts on both
\* sides of the two thresholds, a numeric string, a string that is no number.
Customer(g, sr, i, t, m, tot) ==
    [gender |-> g, senior |-> sr, partner |-> "Yes", dependents |-> "No", tenure |-> t,
     phone |-> "Yes", internet |-> i, monthly |-> m, total |-> tot]

Customers ==
    {Customer(g, sr, i, t, m, tot) :
        g \in {"Female", "Male"}, sr \in {"No", "Yes", "yes"},
        i \in {"Fiber optic", "DSL"},
        t \in {Num(300), Num(1200), Str("abc")},
        m \in {Num(0), Num(8000), Num(9500), Str("95.0"), Str("abc")},
        tot \in {Num(28500), Str("abc")}}

\* The example of the specification.
ExampleCustomer == Customer("Female", "No", "Fiber optic", Num(300), Num(9500), Num(28500))

FieldNames ==
    {"gender", "Gender", "GENDER", "Partner", "partner", "Contract", "contract", "CONTRACT",
     "TechSupport", "techsupport", "InternetService", "PaymentMethod", "Churn"}
FieldValues ==
    {"Female", "Male", "No", "Yes", "One year", "Month-to-month", "Fiber optic",
     "Electronic check", "?"}

\* The columns a row of the model may hold, and three rows: the example, a
\* row whose tenure is no number, a row on the other side of every rule.
AllColumns == Range(Required) \cup {"customerID", "Prediction", "Churn_Probability"}

RowA ==
    [c \in AllColumns |->
        CASE c = "customerID" -> Str("A")
          [] c = "gender" -> Str("Female")
          [] c = "SeniorCitizen" -> Num(0)
          [] c = "Partner" -> Str("Yes")
          [] c = "Dependents" -> Str("No")
          [] c = "tenure" -> Num(300)
          [] c = "PhoneService" -> Str("Yes")
          [] c = "InternetService" -> Str("Fiber optic")
          [] c = "MonthlyCharges" -> Num(9500)
          [] c = "TotalCharges" -> Num(28500)
          [] c = "Prediction" -> Str("Churn")
          [] c = "Churn_Probability" -> Num(91230)]

RowB == [RowA EXCEPT !["customerID"] = Str("B"), !["tenure"] = Str("abc")]

RowC ==
    [RowA EXCEPT !["customerID"] = Str("C"), !["gender"] = Str("Male"),
                 !["SeniorCitizen"] = Num(100), !["tenure"] = Str("12"),
                 !["InternetService"] = Str("DSL"), !["MonthlyCharges"] = Num(8000),
                 !["Prediction"] = Str("kept")]

RowTemplates == {RowA, RowB, RowC}

Layouts ==
    { Required,
      <<"customerID", "gender", "tenure", "MonthlyCharges">>,
      <<"Prediction">> \o Required \o <<"Churn_Probability">> }

MaxRows == 3

Restrict(row, cols) == [c \in Range(cols) |-> row[c]]

RowSeqs(n) == UNION {[1..m -> RowTemplates] : m \in 0..n}

CsvFiles ==
    {[kind |-> "csv", df |-> Frame(cols, [i \in 1..Len(rows) |-> Restrict(rows[i], cols)])] :
        cols \in Layouts, rows \in RowSeqs(MaxRows)}
NoFile == [kind |-> "none", df |-> EmptyFrame]
BrokenFile == [kind |-> "broken", df |-> EmptyFrame]
Uploads == CsvFiles \cup {NoFile, BrokenFile}

Overrides ==
    { [contract |-> DefaultContract, tech_support |-> DefaultTechSupport,
       online_security |-> DefaultOnlineSecurity],
      [contract |-> "One year", tech_support |-> "Yes", online_security |-> DefaultOnlineSecurity],
      [contract |-> "Two year", tech_support |-> "No", online_security |-> "Yes"],
      [contract |-> "?", tech_support |-> "?", online_security |-> "?"] }

-----------------------------------------------------------------------------
(* The state machine *)

NoFiles ==
    [results |-> [present |-> FALSE, df |-> EmptyFrame],
     error_log |-> [present |-> FALSE, text |-> ""]]

Init ==
    /\ pc = "start"
    /\ model = NoneModel
    /\ encoders = EmptyEncoders
    /\ load_error = "none"
    /\ files = NoFiles
    /\ obs = [op |-> "start"]

\* The import of the module (lines 12-32) with the two files drawn from
\* model_files and encoder_files.
Load(model_files, encoder_files) ==
    /\ pc = "start"
    /\ \E mf \in model_files, ef \in encoder_files :
          LET r == LoadAssets(mf, ef)
          IN  /\ model' = r.model
              /\ encoders' = r.encoders
              /\ load_error' = r.load_error
              /\ obs' = [op |-> "load", model_present |-> mf.present,
                         encoders_present |-> ef.present]
    /\ pc' = "serving"
    /\ UNCHANGED files

\* A call of safe_encode.
CallSafeEncode(names, values) ==
    /\ pc = "serving"
    /\ \E col_name \in names, value \in values :
          obs' = [op |-> "safe_encode", col_name |-> col_name, value |-> value,
                  result |-> safe_encode(col_name, value)]
    /\ pc' = "returned"
    /\ UNCHANGED <<model, encoders, load_error, files>>

\* A call of create_feature_array, with or without the three overrides.
CallCreateFeatureArray(customers, overrides) ==
    /\ pc = "serving"
    /\ \E c \in customers, o \in overrides :
          obs' = [op |-> "create_feature_array", args |-> c, overrides |-> o,
                  result |-> create_feature_array(c.gender, c.senior, c.partner,
                                 c.dependents, c.tenure, c.phone, c.internet, c.monthly,
                                 c.total, o.contract, o.tech_support, o.online_security)]
    /\ pc' = "returned"
    /\ UNCHANGED <<model, encoders, load_error, files>>

\* A click on "Analyze Risk" (lines 285-289).
Analyze(customers) ==
    /\ pc = "serving"
    /\ \E c \in customers : obs' = analyze_single_customer(c)
    /\ pc' = "returned"
    /\ UNCHANGED <<model, encoders, load_error, files>>

\* A click on "Process Batch" (line 292): the call, and the files it writes
\* (to_csv at line 196, the error log at lines 201-202).
ProcessBatch(uploads) ==
    /\ pc = "serving"
    /\ \E file_obj \in uploads :
          \E r \in {process_batch_file(file_obj)} :
              /\ files' = [results |-> IF r.writes_results
                                       THEN [present |-> TRUE, df |-> r.results]
                                       ELSE files.results,
                           error_log |-> IF r.writes_error
                                         THEN [present |-> TRUE, text |-> r.error]
                                         ELSE files.error_log]
              /\ obs' = [op |-> "batch", ret |-> r.ret, nrows |-> r.nrows,
                         failed_row |-> r.failed_row, exc |-> r.exc,
                         file |-> IF r.writes_results THEN file_obj ELSE NoFile]
    /\ pc' = "returned"
    /\ UNCHANGED <<model, encoders, load_error>>

\* The caller takes the result; the process waits for the next event.
Return ==
    /\ pc = "returned"
    /\ pc' = "serving"
    /\ obs' = [op |-> "idle"]
    /\ UNCHANGED <<model, encoders, load_error, files>>

ModelFiles == PresentFiles(ModelPickles) \cup {MissingModelFile}
EncoderFiles == PresentFiles(EncoderPickles) \cup {MissingEncoderFile}

OneModelFile == PresentFiles({Bare(Forest)}) \cup {MissingModelFile}

\* The encoder lookup and the feature vector, over every encoder artifact.
NextEncode ==
    \/ Load(OneModelFile, EncoderFiles)
    \/ CallSafeEncode(FieldNames, FieldValues)
    \/ CallCreateFeatureArray(Customers, Overrides)
    \/ Return

SpecEncode == Init /\ [][NextEncode]_vars

\* The single-customer analysis, over every classifier and encoder artifact.
FormCustomers == {c \in Customers : c.gender = "Female" /\ c.senior # "yes"}

NextSingle ==
    \/ Load(ModelFiles, EncoderFiles)
    \/ Analyze(FormCustomers)
    \/ Return

SpecSingle == Init /\ [][NextSingle]_vars

\* The whole program: every entry point, over fewer artifacts and records.
SomeModelFiles ==
    PresentFiles({Bare(Forest), Bare(Margin), Bare(Stump("forest", 18, 8500, Broken, Odd, TRUE))})
        \cup {MissingModelFile}
SomeEncoderFiles == PresentFiles({TrainedEncoders}) \cup {MissingEncoderFile}
SomeCustomers ==
    {c \in FormCustomers : c.senior = "No" /\ c.internet = "Fiber optic" /\ c.tenure # Num(1200)}

Next ==
    \/ Load(SomeModelFiles, SomeEncoderFiles)
    \/ CallSafeEncode({"gender", "Contract"}, {"Female", "One year"})
    \/ CallCreateFeatureArray({ExampleCustomer}, Overrides)
    \/ Analyze(SomeCustomers)
    \/ ProcessBatch(Uploads)
    \/ Return

Spec == Init /\ [][Next]_vars

-----------------------------------------------------------------------------
(* Properties *)

Analyzed == pc = "returned" /\ obs.op = "analyze"
Batched == pc = "returned" /\ obs.op = "batch"

IsNumeric(x) == x.t = "num" \/ x.s \in DOMAIN NumericText
Code(field, value) == safe_encode(field, value).val

\* C1: for a record whose tenure, monthly charges and total charges are
\* numeric, and for any overrides, create_feature_array returns one row of 19
\* values in the fixed column order, the hidden columns holding the codes of
\* their defaults and senior being 1 exactly for "Yes".
C1_FeatureVector ==
    (pc = "returned" /\ obs.op = "create_feature_array"
        /\ IsNumeric(obs.args.tenure) /\ IsNumeric(obs.args.monthly)
        /\ IsNumeric(obs.args.total))
    => /\ obs.result.ok
       /\ Len(obs.result.val) = 19
       /\ obs.result.val[1] = Code("gender", obs.args.gender)
       /\ obs.result.val[2] = 1 <=> obs.args.senior = "Yes"
       /\ obs.result.val[2] \in {0, 1}
       /\ obs.result.val[3] = Code("Partner", obs.args.partner)
       /\ obs.result.val[4] = Code("Dependents", obs.args.dependents)
       /\ obs.result.val[5] = Float(obs.args.tenure).val
       /\ obs.result.val[6] = Code("PhoneService", obs.args.phone)
       /\ obs.result.val[7] = Code("MultipleLines", "No")
       /\ obs.result.val[8] = Code("InternetService", obs.args.internet)
       /\ obs.result.val[9] = Code("OnlineSecurity", obs.overrides.online_security)
       /\ obs.result.val[10] = Code("OnlineBackup", "No")
       /\ obs.result.val[11] = Code("DeviceProtection", "No")
       /\ obs.result.val[12] = Code("TechSupport", obs.overrides.tech_support)
       /\ obs.result.val[13] = Code("StreamingTV", "No")
       /\ obs.result.val[14] = Code("StreamingMovies", "No")
       /\ obs.result.val[15] = Code("Contract", obs.overrides.contract)
       /\ obs.result.val[16] = Code("PaperlessBilling", "Yes")
       /\ obs.result.val[17] = Code("PaymentMethod", "Electronic check")
       /\ obs.result.val[18] = Float(obs.args.monthly).val
       /\ obs.result.val[19] = Float(obs.args.total).val

\* A vector built with overrides from a numeric string, under encoders whose
\* codes tell the columns apart.
C1_Witness ==
    /\ pc = "returned" /\ obs.op = "create_feature_array"
    /\ encoders = TaggedEncoders
    /\ obs.args.senior = "Yes" /\ obs.args.monthly = Str("95.0")
    /\ obs.overrides.contract = "One year" /\ obs.overrides.tech_support = "Yes"
    /\ obs.result.ok /\ obs.result.val[2] = 1
    /\ obs.result.val[12] = 102 /\ obs.result.val[15] = 131 /\ obs.result.val[18] = 9500

\* C2: safe_encode never raises; it returns the code given by the encoder
\* registered under exactly the field name when there is one, otherwise the
\* code given by an encoder whose name equals the field name up to case, and 0
\* when there is no such encoder or the encoder's transform fails on the value.
C2_SafeEncode ==
    (pc = "returned" /\ obs.op = "safe_encode")
    => LET d == encoders
           CodeOr0(enc) == IF obs.value \in DOMAIN enc THEN enc[obs.value] ELSE 0
           exact == {i \in 1..Len(d) : d[i][1] = obs.col_name}
           loose == {i \in 1..Len(d) : Lower(d[i][1]) = Lower(obs.col_name)}
       IN  /\ obs.result.ok
           /\ exact # {} => \E i \in exact : obs.result.val = CodeOr0(d[i][2])
           /\ (exact = {} /\ loose # {}) => \E i \in loose : obs.result.val = CodeOr0(d[i][2])
           /\ loose = {} => obs.result.val = 0

\* A name found only up to case, whose first encoder in the table does not
\* know the value: 0, though a later encoder of that name knows it.
C2_Witness ==
    /\ pc = "returned" /\ obs.op = "safe_encode"
    /\ encoders = LegacyEncoders
    /\ obs.col_name = "Contract" /\ obs.value = "One year"
    /\ obs.result = Ok(0)

\* C3: the what-if simulation runs if and only if the base probability is
\* above 0.40; at or below it the recommendation stays "No intervention
\* needed" with the "no email required" draft and predict_proba is not called
\* again; above it a simulation result (the offer or the structural-risk
\* message) is always produced.
C3_SimulationAlwaysYieldsResult ==
    (Analyzed /\ obs.scored)
    => /\ obs.simulated <=> obs.prob > RiskThreshold
       /\ obs.prob <= RiskThreshold
            => /\ obs.returned = "result"
               /\ obs.msg = NoMsg /\ obs.email = NoEmail
               /\ obs.builds = 1 /\ Len(obs.proba_calls) <= 1
       /\ obs.prob > RiskThreshold
            => /\ obs.returned = "result"
               /\ obs.msg.kind \in {"offer", "structural"}

\* C4: the simulated vector differs from the base vector only in the
\* tech-support, contract and monthly-charges columns, which hold the codes of
\* "Yes" and "One year" and the monthly charge times 0.85; and the handler's
\* own values are, after the simulation, the values passed in.
C4_SimulationLeavesRecord ==
    Analyzed
    => /\ obs.frame = obs.args
       /\ (obs.simulated /\ obs.new_features # << >>)
            => /\ Len(obs.new_features) = 19 /\ Len(obs.features) = 19
               /\ \A i \in 1..19 : i \notin {12, 15, 18} => obs.new_features[i] = obs.features[i]
               /\ obs.new_features[12] = Code("TechSupport", "Yes")
               /\ obs.new_features[15] = Code("Contract", "One year")
               /\ 100 * obs.new_features[18] = 85 * Float(obs.args.monthly).val
               /\ obs.features[18] = Float(obs.args.monthly).val

\* A simulation of the example's 95.0 under encoders that tell columns apart.
C4_Witness ==
    /\ Analyzed /\ obs.returned = "result" /\ obs.simulated
    /\ encoders = TaggedEncoders
    /\ obs.features[18] = 9500 /\ obs.new_features[18] = 8075
    /\ obs.features[15] # obs.new_features[15]
    /\ obs.features[12] # obs.new_features[12]

\* C5: when the simulation has run, the offer is recommended, with the drop
\* from the base to the new probability and the discount email, if and only if
\* the new probability is below the base probability; otherwise, equality
\* included, the result is the structural-risk message.  One candidate only is
\* evaluated per analysis.
C5_RecommendIffLower ==
    (Analyzed /\ obs.returned = "result")
    => /\ obs.builds <= 2 /\ Len(obs.proba_calls) <= 2
       /\ obs.simulated
            => /\ obs.builds = 2 /\ Len(obs.proba_calls) = 2
               /\ obs.msg.kind = "offer" <=> obs.new_prob < obs.prob
               /\ obs.new_prob < obs.prob
                    => /\ obs.msg = [kind |-> "offer", from |-> FormatPct1(obs.prob),
                                     to |-> FormatPct1(obs.new_prob)]
                       /\ obs.email.kind = "offer"
                       /\ obs.email.concern = obs.explanation
                       /\ obs.email.offer =
                            "A 15% Discount on your monthly bill + Free Tech Support upgrade"
               /\ obs.new_prob >= obs.prob
                    => /\ obs.msg.kind = "structural"
                       /\ obs.email.offer = "A Priority Support Plan"

\* A simulation whose new probability equals the base probability.
C5_Witness ==
    /\ Analyzed /\ obs.returned = "result" /\ obs.simulated
    /\ obs.new_prob = obs.prob
    /\ obs.new_features # obs.features
    /\ obs.msg.kind = "structural"

\* The drivers the three rules give, in the rules' order, with the third
\* driver's text as a parameter.
DriversOf(c, fiber_text) ==
    LET rules == << [hit |-> Float(c.monthly).val > 8000, text |-> "High Monthly Charges"],
                    [hit |-> Float(c.tenure).val < 1200, text |-> "New Customer (Low Tenure)"],
                    [hit |-> c.internet = "Fiber optic", text |-> fiber_text] >>
        Hit(r) == r.hit
        matched == SelectSeq(rules, Hit)
    IN  [i \in 1..Len(matched) |-> matched[i].text]

\* C6 as stated: the third rule's driver is "Fiber Optic Issues", and the
\* example record yields the three drivers with that text.
C6_AsStated ==
    (Analyzed /\ obs.scored)
    => /\ obs.reasons = DriversOf(obs.args, "Fiber Optic Issues")
       /\ obs.args = ExampleCustomer
            => obs.reasons = <<"High Monthly Charges", "New Customer (Low Tenure)",
                               "Fiber Optic Issues">>

\* C6, amended: the risk explainer is a function of monthly charges, tenure
\* and internet service that tries three rules in the order monthly > 80,
\* tenure < 12, internet = "Fiber optic", lists exactly the drivers whose rule
\* matched, in that order, the third being "Fiber Optic Issues (Common)", and
\* gives the single default driver when none matches.
C6_RiskDrivers ==
    (Analyzed /\ obs.scored)
    => /\ obs.reasons = DriversOf(obs.args, "Fiber Optic Issues (Common)")
       /\ obs.explanation = IF obs.reasons = << >> THEN <<"Standard Usage Pattern">>
                            ELSE obs.reasons
       /\ obs.args = ExampleCustomer
            => obs.reasons = <<"High Monthly Charges", "New Customer (Low Tenure)",
                               "Fiber Optic Issues (Common)">>

\* The example record analyzed, all three rules matching.
C6_Witness ==
    /\ Analyzed /\ obs.scored
    /\ obs.args = ExampleCustomer
    /\ Len(obs.reasons) = 3

\* C7: when a row of the batch raises, process_batch_file writes the error log
\* and returns its path, and leaves the results file as it was: no output for
\* the rows before the failing one.
C7_BatchAllOrNothing ==
    [][(pc' = "returned" /\ obs'.op = "batch" /\ obs'.failed_row > 0)
         => /\ obs'.ret = "error_log.txt"
            /\ files'.error_log.present
            /\ files'.results = files.results]_vars

\* Row 2 of 3 has a tenure that is no number, and an earlier batch has left a
\* results file.
C7_Witness ==
    /\ Batched /\ obs.nrows = 3 /\ obs.failed_row = 2 /\ obs.exc = "ValueError"
    /\ obs.ret = "error_log.txt"
    /\ files.results.present /\ Len(files.results.df.rows) > 0

\* What the classifier says of row i of frame df.
LabelOf(df, i) ==
    IF Predict(model, RowFeatures(df.rows[i]).val).val = 1 THEN "Churn" ELSE "No Churn"
ProbaOf(df, i) == PredictProba(model, RowFeatures(df.rows[i]).val).val

\* C8 as stated: the output is the input with every column unchanged and two
\* columns appended, Prediction and Churn_Probability, the latter holding the
\* classifier's probability; whatever columns the input has.
C8_AsStated ==
    (Batched /\ obs.ret = "processed_churn_results.csv")
    => LET in == obs.file.df
           out == files.results.df
       IN  /\ out.cols = in.cols \o <<"Prediction", "Churn_Probability">>
           /\ Len(out.rows) = Len(in.rows)
           /\ \A i \in 1..Len(in.rows) :
                 /\ \A c \in Range(in.cols) : out.rows[i][c] = in.rows[i][c]
                 /\ out.rows[i]["Prediction"] = Str(LabelOf(in, i))
                 /\ out.rows[i]["Churn_Probability"] = Num(ProbaOf(in, i))

\* C8, amended: the output has the input's rows in order; Prediction holds
\* "Churn" where the classifier's prediction is 1 and "No Churn" otherwise,
\* Churn_Probability the classifier's probability rounded to 4 digits; each of
\* the two is appended as the last column unless the input has a column of
\* that name, which is then overwritten where it stands; every other column is
\* unchanged.
C8_BatchOutput ==
    (Batched /\ obs.ret = "processed_churn_results.csv")
    => LET in == obs.file.df
           out == files.results.df
           added == SelectSeq(<<"Prediction", "Churn_Probability">>,
                              LAMBDA c : c \notin Range(in.cols))
       IN  /\ files.results.present
           /\ out.cols = in.cols \o added
           /\ Len(out.rows) = Len(in.rows)
           /\ \A i \in 1..Len(in.rows) :
                 /\ DOMAIN out.rows[i] = Range(out.cols)
                 /\ \A c \in Range(in.cols) \ {"Prediction", "Churn_Probability"} :
                       out.rows[i][c] = in.rows[i][c]
                 /\ out.rows[i]["Prediction"] = Str(LabelOf(in, i))
                 /\ out.rows[i]["Churn_Probability"] = Num(RoundHalfEven(ProbaOf(in, i), 10))

\* Two rows with different labels, in a table that came with a Prediction
\* column of its own.
C8_Witness ==
    /\ Batched /\ obs.ret = "processed_churn_results.csv" /\ obs.nrows = 2
    /\ obs.file.df.cols[1] = "Prediction"
    /\ files.results.df.rows[1]["Prediction"] = Str("Churn")
    /\ files.results.df.rows[2]["Prediction"] = Str("No Churn")
    /\ obs.file.df.rows[2]["Prediction"] = Str("kept")
    /\ files.results.df.rows[1]["Churn_Probability"] = Num(55000)

\* C9: no exception leaves analyze_single_customer: whatever the input and
\* whatever the classifier does, the call returns an error result.
C9_AnalysisNeverRaises ==
    Analyzed => obs.returned # "raised"

\* C10: once a load has failed at startup, every analysis returns "Model not
\* loaded" without building a feature vector, and every batch run on a file
\* yields the error log and no results file.
C10_NothingServedWithoutArtifacts ==
    load_error # "none"
    => /\ Analyzed => obs.returned = "error" /\ obs.builds = 0
       /\ (Batched /\ obs.ret # "None")
            => obs.ret = "error_log.txt" /\ ~files.results.present

====
